---------------------------- MODULE Spec2Model ----------------------------
(***************************************************************************)
(* A model of src/src/spurt/utils/merge.py: the three helper routines      *)
(* find_common_points, pairwise_unwrapped_diff and l2_min.  Each routine   *)
(* is a call frame (a record of its arguments and locals) that is stepped  *)
(* statement by statement; a frame whose pc is "idle" belongs to a routine *)
(* that is not being called in the behaviour at hand.                      *)
(***************************************************************************)
EXTENDS Integers, Sequences, FiniteSets

VARIABLES fcp, pud, l2

vars == <<fcp, pud, l2>>

\* Longest point cloud handed to find_common_points.
MaxPts == 2

\* Most bands (rows) and most samples per band (columns) of a phase array.
MaxBands == 2

MaxSamples == 12

\* Most rows and columns of a coefficient matrix.
MaxRows == 2

MaxCols == 2

\* The number of percentile ranks, 0 to 100 in steps of 10.
NRanks == 11

\* The width of np.int16.
Int16Bits == 16

Abs(n) == IF n < 0 THEN -n ELSE n

(***************************************************************************)
(* 64-bit integers (numpy's default integer dtype, int64).  A value is     *)
(* written hi * 2^32 + lo with signed digits hi and lo.  Every value the   *)
(* model builds has digits of magnitude far below 2^31, so the two digits  *)
(* never carry into one another, a value has exactly one such writing, and *)
(* the order of two values is the lexicographic order of their digits.     *)
(* Arithmetic is modulo 2^64: the product drops the term                   *)
(* a.hi * b.hi * 2^64, which is what the wrap-around of int64 does.        *)
(***************************************************************************)
I64(h, l) == [hi |-> h, lo |-> l]

Zero64 == I64(0, 0)

One64 == I64(0, 1)

Add64(a, b) == I64(a.hi + b.hi, a.lo + b.lo)

Mul64(a, b) == I64(a.hi * b.lo + a.lo * b.hi, a.lo * b.lo)

Less64(a, b) == a.hi < b.hi \/ (a.hi = b.hi /\ a.lo < b.lo)

Min64(S) == CHOOSE v \in S : \A w \in S : ~Less64(w, v)

Max64(S) == CHOOSE v \in S : \A w \in S : ~Less64(v, w)

\* The rows a caller may put into a cloud: small coordinates, the two
\* negative ones, and rows whose coordinates are near 2^32.
Rows ==
    { <<I64(0, 0), I64(0, 0)>>, <<I64(0, 1), I64(0, 2)>>,
      <<I64(0, 2), I64(0, 1)>>, <<I64(0, -1), I64(0, 0)>>,
      <<I64(0, 0), I64(0, -1)>>, <<I64(0, 0), I64(1, -1)>>,
      <<I64(1, 0), I64(1, -1)>> }

Clouds == UNION { [1..n -> Rows] : n \in 0..MaxPts }

\* np.min over the first column only.
NpMinFirstColumn(c) == Min64({ c[i][1] : i \in DOMAIN c })

\* np.min(c): the least component of the whole array; of an empty array it
\* raises ValueError (handled by the caller of this operator).
NpMin(c) == Min64({ c[i][k] : i \in DOMAIN c, k \in 1..2 })

\* np.amax(c[:, 1])
AmaxCol1(c) == Max64({ c[i][2] : i \in DOMAIN c })

\* m = 1 + max(np.amax(c1[:, 1]), np.amax(c2[:, 1]))
KeyBase(c1, c2) == Add64(One64, Max64({AmaxCol1(c1), AmaxCol1(c2)}))

\* c[:, 0] * m + c[:, 1]
EncodeKeys(c, m) == [i \in DOMAIN c |-> Add64(Mul64(c[i][1], m), c[i][2])]

RECURSIVE SortSet64(_)
SortSet64(S) ==
    IF S = {} THEN <<>>
    ELSE LET mn == Min64(S) IN <<mn>> \o SortSet64(S \ {mn})

\* 0-based index of the first occurrence of v in ar.
FirstIndex(ar, v) ==
    (CHOOSE i \in DOMAIN ar : ar[i] = v /\ \A j \in 1..(i - 1) : ar[j] # v) - 1

\* np.unique(ar, return_index=True): the sorted distinct values and, for
\* each, the index of its first occurrence.
Unique(ar) ==
    LET vals == SortSet64({ ar[i] : i \in DOMAIN ar })
    IN  [vals |-> vals,
         index |-> [k \in DOMAIN vals |-> FirstIndex(ar, vals[k])]]

\* np.argsort(a, kind="mergesort"): the 0-based indices in the stable order.
RECURSIVE ArgsortOf(_, _)
ArgsortOf(a, I) ==
    IF I = {} THEN <<>>
    ELSE LET before(j, i) ==
                 Less64(a[j + 1], a[i + 1]) \/ (a[j + 1] = a[i + 1] /\ j < i)
             first == CHOOSE i \in I : \A j \in I : ~before(j, i)
         IN  <<first>> \o ArgsortOf(a, I \ {first})

StableArgsort(a) == ArgsortOf(a, { i - 1 : i \in DOMAIN a })

\* s[mask]: the elements of s at the positions where mask holds.
MaskPick(s, mask) ==
    LET F[k \in 0..Len(s)] ==
            IF k = 0 THEN <<>>
            ELSE IF mask[k] THEN Append(F[k - 1], s[k]) ELSE F[k - 1]
    IN  F[Len(s)]

\* np.intersect1d(ar1, ar2, return_indices=True)[1:]
Intersect1d(ar1, ar2) ==
    LET u1 == Unique(ar1)
        u2 == Unique(ar2)
        aux0 == u1.vals \o u2.vals
        perm == StableArgsort(aux0)
        aux == [k \in DOMAIN perm |-> aux0[perm[k] + 1]]
        n == Len(aux)
        less == IF n = 0 THEN 0 ELSE n - 1
        mask == [k \in 1..less |-> aux[k + 1] = aux[k]]
        a1 == MaskPick([k \in 1..less |-> perm[k]], mask)
        a2 == MaskPick([k \in 1..less |-> perm[k + 1] - Len(u1.vals)], mask)
    IN  [ii |-> [k \in DOMAIN a1 |-> u1.index[a1[k] + 1]],
         jj |-> [k \in DOMAIN a2 |-> u2.index[a2[k] + 1]]]

FcpIdle ==
    [pc |-> "idle", c1 |-> <<>>, c2 |-> <<>>, m |-> Zero64, fc1 |-> <<>>,
     fc2 |-> <<>>, ii |-> <<>>, jj |-> <<>>, err |-> "none"]

(***************************************************************************)
(* pairwise_unwrapped_diff.  An array is its shape and its elements in     *)
(* row-major order.  Phases are counted in thousandths of a cycle (of      *)
(* 2 * pi radians), so that (b2 - b1) / (2 * pi) is the difference of two  *)
(* phases read in cycles: a value v stands for v / 1000 cycles.            *)
(***************************************************************************)
RECURSIVE Product(_)
Product(shape) ==
    IF shape = <<>> THEN 1 ELSE Head(shape) * Product(Tail(shape))

Filled(shape, v) == [shape |-> shape, data |-> [i \in 1..Product(shape) |-> v]]

Int16Min == -(2 ^ (Int16Bits - 1))

Int16Max == 2 ^ (Int16Bits - 1) - 1

\* np.rint of v / 1000: the nearest integer, a tie going to the even one.
Rint(v) ==
    LET q == v \div 1000
        r == v % 1000
    IN  IF r * 2 < 1000 THEN q
        ELSE IF r * 2 > 1000 THEN q + 1
        ELSE IF q % 2 = 0 THEN q ELSE q + 1

\* A conversion that keeps every integer (a wider integer type).
AstypeWide(n, cast) == n

\* .astype(np.int16) of an integer-valued float.  A value out of the range
\* of int16 has no defined result in C: a build wraps it modulo 2^16,
\* clamps it, or yields zero.
AstypeInt16(n, cast) ==
    IF n \in Int16Min..Int16Max THEN n
    ELSE IF cast = "wrap"
    THEN ((n - Int16Min) % (2 ^ Int16Bits)) + Int16Min
    ELSE IF cast = "clamp"
    THEN (IF n < 0 THEN Int16Min ELSE Int16Max)
    ELSE 0

CastModes == {"wrap", "clamp", "zero"}

\* Closeness with the absolute tolerance alone.
IsCloseAbsolute(d, n) == Abs(d - 1000 * n) <= 10

\* One element of np.allclose(diff, nint, atol=0.01), with numpy's default
\* rtol = 1e-5: |d - n| <= 0.01 + 1e-5 * |n|.  In thousandths this is
\* 100 * |d - 1000 n| <= 1000 + |n|, written with a division so that the
\* left side is not multiplied.
IsClose(d, n) == Abs(d - 1000 * n) <= (1000 + Abs(n)) \div 100

AllClose(diff, nint) == \A i \in DOMAIN diff : IsClose(diff[i], nint[i])

\* (np.linspace(0, 100, 11) * b1.shape[1]).astype(np.int): linspace gives
\* 0, 10, ..., 100, and the products are whole numbers.
RankIndices(samples) == [k \in 1..NRanks |-> (k - 1) * 10 * samples]

\* v put into the ascending sequence t.
Insert(t, v) ==
    LET j == Cardinality({ i \in DOMAIN t : t[i] <= v })
    IN  SubSeq(t, 1, j) \o <<v>> \o SubSeq(t, j + 1, Len(t))

SortSeq(s) ==
    LET F[k \in 0..Len(s)] == IF k = 0 THEN <<>> ELSE Insert(F[k - 1], s[k])
    IN  F[Len(s)]

\* Row r (from 0) of a 2-D array given by its shape and row-major data.
RowOf(shape, data, r) == [c \in 1..shape[2] |-> data[r * shape[2] + c]]

\* np.sort(nint, axis=-1): the rows, each sorted.
SortRows(shape, data) ==
    [r \in 1..shape[1] |-> SortSeq(RowOf(shape, data, r - 1))]

\* An index into an axis of the given size is valid from -size to size - 1.
IndexValid(i, size) == -size <= i /\ i < size

\* rows[:, inds]
Gather(rows, inds, size) ==
    [r \in DOMAIN rows |->
        [k \in DOMAIN inds |->
            rows[r][(IF inds[k] < 0 THEN inds[k] + size ELSE inds[k]) + 1]]]

SampleCounts == {5} \cup ((NRanks - 1)..MaxSamples)

Shapes ==
    { <<b, s>> : b \in 1..MaxBands, s \in SampleCounts }
        \cup { <<NRanks>>, <<1, NRanks, 1>> }

\* Whole-cycle offsets between the two arrays, and the deviation of one
\* element from the offset, in thousandths of a cycle.
Cycles == {0, 1, -2, 1000, 32767, 32768, 40000, -32768, -32769}

Deviations == {0, 5, 15, -15, 300, 340, 500, -500}

BasePhases == {0, 250}

PudIdle ==
    [pc |-> "idle", b1 |-> Filled(<<>>, 0), b2 |-> Filled(<<>>, 0),
     cast |-> "wrap", diff |-> <<>>, nint |-> <<>>, inds |-> <<>>,
     sorted |-> <<>>, hist |-> <<>>, err |-> "none", at |-> "none"]

(***************************************************************************)
(* l2_min.  A coefficient matrix is dense (np.ndarray) or sparse           *)
(* (csr_matrix): its shape, its elements in row-major order and, for a     *)
(* sparse matrix, the stored elements, which are the non-zero ones.        *)
(***************************************************************************)
Matrix(kind, shape, data) == [kind |-> kind, shape |-> shape, data |-> data]

\* The number of stored values of a sparse matrix (its .size attribute).
Stored(amat) == Cardinality({ i \in DOMAIN amat.data : amat.data[i] # 0 })

\* np.size(amat) returns amat.size: the number of elements of an ndarray,
\* the number of stored values of a sparse matrix.
NpSize(amat) ==
    IF amat.kind = "ndarray" THEN Product(amat.shape) ELSE Stored(amat)

Zeros(n) == [i \in 1..n |-> 0]

\* The zero vectors with the two lengths exchanged.
FastPathSwapped(amat) ==
    [x |-> Zeros(amat.shape[1]), r |-> Zeros(amat.shape[2])]

\* return np.zeros(amat.shape[1]), np.zeros(amat.shape[0])
FastPathResult(amat) ==
    [x |-> Zeros(amat.shape[2]), r |-> Zeros(amat.shape[1])]

RECURSIVE SumTo(_, _)
SumTo(f, n) == IF n = 0 THEN 0 ELSE f[n] + SumTo(f, n - 1)

\* The product of a matrix and a vector.
MatVec(amat, x) ==
    [i \in 1..amat.shape[1] |->
        SumTo([j \in 1..amat.shape[2] |->
                  amat.data[(i - 1) * amat.shape[2] + j] * x[j]],
              amat.shape[2])]

\* b - np.dot(amat, x) for an ndarray amat.
DenseResidual(amat, b, x) == [i \in DOMAIN b |-> b[i] - MatVec(amat, x)[i]]

\* b - np.dot(amat, x) for a csr_matrix amat.  np.dot does not know sparse
\* matrices: it takes amat for a scalar object and returns an object array
\* of the len(x) matrices amat * x[j].  Subtracting that from b fails to
\* broadcast unless the lengths agree, and a sparse matrix cannot be
\* subtracted from a non-zero scalar; when every b[i] is 0 the result is an
\* object array of matrices.  It is never the vector b - A x.
SparseResidual(amat, b, x) ==
    IF ~(Len(b) = Len(x) \/ Len(b) = 1 \/ Len(x) = 1)
    THEN [kind |-> "raise", err |-> "ValueError"]
    ELSE IF \E i \in DOMAIN b : b[i] # 0
    THEN [kind |-> "raise", err |-> "NotImplementedError"]
    ELSE [kind |-> "object", err |-> "none"]

Entries == {0, 1}

RightHandSides == {-2, 0}

Solutions == {0, 1}

MatrixShapes == { <<r, c>> : r \in 0..MaxRows, c \in 0..MaxCols }

L2Idle ==
    [pc |-> "idle", amat |-> Matrix("ndarray", <<0, 0>>, <<>>), b |-> <<>>,
     logger |-> FALSE, warnings |-> 0, solves |-> <<>>, x |-> <<>>,
     r |-> <<>>, rkind |-> "none", err |-> "none"]

InitFCP ==
    /\ \E c1 \in Clouds, c2 \in Clouds :
           fcp = [FcpIdle EXCEPT !.pc = "assert", !.c1 = c1, !.c2 = c2]
    /\ pud = PudIdle
    /\ l2 = L2Idle

\* assert min(np.min(c1), np.min(c2)) >= 0
FcpAssert ==
    /\ fcp.pc = "assert"
    /\ fcp' = IF Len(fcp.c1) = 0 \/ Len(fcp.c2) = 0
              THEN [fcp EXCEPT !.pc = "raised", !.err = "ValueError"]
              ELSE IF Less64(Min64({NpMin(fcp.c1), NpMin(fcp.c2)}), Zero64)
              THEN [fcp EXCEPT !.pc = "raised", !.err = "AssertionError"]
              ELSE [fcp EXCEPT !.pc = "encode"]
    /\ UNCHANGED <<pud, l2>>

\* m, fc1 and fc2
FcpEncode ==
    /\ fcp.pc = "encode"
    /\ LET m == KeyBase(fcp.c1, fcp.c2)
       IN  fcp' = [fcp EXCEPT !.pc = "intersect", !.m = m,
                              !.fc1 = EncodeKeys(fcp.c1, m),
                              !.fc2 = EncodeKeys(fcp.c2, m)]
    /\ UNCHANGED <<pud, l2>>

\* return np.intersect1d(fc1, fc2, return_indices=True)[1:]
FcpIntersect ==
    /\ fcp.pc = "intersect"
    /\ LET r == Intersect1d(fcp.fc1, fcp.fc2)
       IN  fcp' = [fcp EXCEPT !.pc = "done", !.ii = r.ii, !.jj = r.jj]
    /\ UNCHANGED <<pud, l2>>

\* The two arrays differ in shape, or have the same shape and b2 is b1 plus
\* a whole number of cycles, one element deviating from it.
InitPUD ==
    /\ fcp = FcpIdle
    /\ l2 = L2Idle
    /\ \/ \E s1 \in Shapes : \E s2 \in Shapes \ {s1} :
              pud = [PudIdle EXCEPT !.pc = "shape", !.b1 = Filled(s1, 0),
                                    !.b2 = Filled(s2, 0)]
       \/ \E s \in Shapes, v \in BasePhases, k \in Cycles, dev \in Deviations,
              cast \in CastModes :
              \E pos \in 0..Product(s) :
                  pud = [PudIdle EXCEPT
                            !.pc = "shape", !.cast = cast, !.b1 = Filled(s, v),
                            !.b2 = [shape |-> s,
                                    data |-> [i \in 1..Product(s) |->
                                        v + 1000 * k + (IF i = pos THEN dev ELSE 0)]]]

PudRaise(err, at) == [pud EXCEPT !.pc = "raised", !.err = err, !.at = at]

\* if b1.shape != b2.shape: raise ValueError
PudCheckShape ==
    /\ pud.pc = "shape"
    /\ pud' = IF pud.b1.shape # pud.b2.shape
              THEN PudRaise("ValueError", "shape")
              ELSE [pud EXCEPT !.pc = "ndim"]
    /\ UNCHANGED <<fcp, l2>>

\* if b1.ndim != 2: raise ValueError
PudCheckNdim ==
    /\ pud.pc = "ndim"
    /\ pud' = IF Len(pud.b1.shape) # 2
              THEN PudRaise("ValueError", "ndim")
              ELSE [pud EXCEPT !.pc = "samples"]
    /\ UNCHANGED <<fcp, l2>>

\* if b1.shape[1] != 11: raise ValueError
PudCheckSamples ==
    /\ pud.pc = "samples"
    /\ pud' = IF pud.b1.shape[2] # NRanks
              THEN PudRaise("ValueError", "samples")
              ELSE [pud EXCEPT !.pc = "diff"]
    /\ UNCHANGED <<fcp, l2>>

\* diff[:, :] = (b2 - b1) / (2 * np.pi); nint = np.rint(diff).astype(np.int16)
PudDiff ==
    /\ pud.pc = "diff"
    /\ LET diff == [i \in DOMAIN pud.b1.data |-> pud.b2.data[i] - pud.b1.data[i]]
       IN  pud' = [pud EXCEPT
                      !.pc = "close", !.diff = diff,
                      !.nint = [i \in DOMAIN diff |->
                                   AstypeInt16(Rint(diff[i]), pud.cast)]]
    /\ UNCHANGED <<fcp, l2>>

\* assert np.allclose(diff, nint, atol=0.01)
PudAssertClose ==
    /\ pud.pc = "close"
    /\ pud' = IF AllClose(pud.diff, pud.nint)
              THEN [pud EXCEPT !.pc = "inds"]
              ELSE PudRaise("AssertionError", "close")
    /\ UNCHANGED <<fcp, l2>>

\* inds = (np.linspace(0, 100, 11) * b1.shape[1]).astype(np.int)
PudInds ==
    /\ pud.pc = "inds"
    /\ pud' = [pud EXCEPT !.pc = "sort", !.inds = RankIndices(pud.b1.shape[2])]
    /\ UNCHANGED <<fcp, l2>>

\* diff = np.sort(nint, axis=-1)
PudSort ==
    /\ pud.pc = "sort"
    /\ pud' = [pud EXCEPT !.pc = "gather",
                          !.sorted = SortRows(pud.b1.shape, pud.nint)]
    /\ UNCHANGED <<fcp, l2>>

\* return diff[:, inds]
PudGather ==
    /\ pud.pc = "gather"
    /\ pud' = IF \A k \in DOMAIN pud.inds : IndexValid(pud.inds[k], pud.b1.shape[2])
              THEN [pud EXCEPT !.pc = "done",
                               !.hist = Gather(pud.sorted, pud.inds, pud.b1.shape[2])]
              ELSE PudRaise("IndexError", "gather")
    /\ UNCHANGED <<fcp, l2>>

NextPUD ==
    \/ PudCheckShape \/ PudCheckNdim \/ PudCheckSamples \/ PudDiff
    \/ PudAssertClose \/ PudInds \/ PudSort \/ PudGather

SpecPUD == InitPUD /\ [][NextPUD]_vars

InitL2 ==
    /\ fcp = FcpIdle
    /\ pud = PudIdle
    /\ \E kind \in {"ndarray", "csr"}, shape \in MatrixShapes, n \in 0..MaxRows,
          logger \in BOOLEAN :
          \E data \in [1..Product(shape) -> Entries], b \in [1..n -> RightHandSides] :
              l2 = [L2Idle EXCEPT !.pc = "size", !.amat = Matrix(kind, shape, data),
                                  !.b = b, !.logger = logger]

\* if np.size(amat) == 0
L2Size ==
    /\ l2.pc = "size"
    /\ l2' = [l2 EXCEPT !.pc = IF NpSize(l2.amat) = 0 THEN "fast" ELSE "assert"]
    /\ UNCHANGED <<fcp, pud>>

\* if logger: logger.warning(...); return the zero vectors
L2FastPath ==
    /\ l2.pc = "fast"
    /\ l2' = [l2 EXCEPT
                 !.pc = "done",
                 !.warnings = IF l2.logger THEN l2.warnings + 1 ELSE l2.warnings,
                 !.x = FastPathResult(l2.amat).x,
                 !.r = FastPathResult(l2.amat).r,
                 !.rkind = "float"]
    /\ UNCHANGED <<fcp, pud>>

\* assert amat.shape[0] == b.shape[0]
L2AssertRows ==
    /\ l2.pc = "assert"
    /\ l2' = IF l2.amat.shape[1] = Len(l2.b)
             THEN [l2 EXCEPT !.pc = "solve"]
             ELSE [l2 EXCEPT !.pc = "raised", !.err = "AssertionError"]
    /\ UNCHANGED <<fcp, pud>>

\* x = lsq_dense(amat, b, rcond=None)[0]: the solver is a library routine,
\* and x is whatever vector of the right length it produces.
L2SolveDense ==
    /\ l2.pc = "solve"
    /\ l2.amat.kind = "ndarray"
    /\ \E x \in [1..l2.amat.shape[2] -> Solutions] :
           l2' = [l2 EXCEPT !.pc = "residual", !.x = x,
                            !.solves = Append(l2.solves, "lsq_dense")]
    /\ UNCHANGED <<fcp, pud>>

\* x = lsq_sparse(amat, b)[0]
L2SolveSparse ==
    /\ l2.pc = "solve"
    /\ l2.amat.kind # "ndarray"
    /\ \E x \in [1..l2.amat.shape[2] -> Solutions] :
           l2' = [l2 EXCEPT !.pc = "residual", !.x = x,
                            !.solves = Append(l2.solves, "lsq_sparse")]
    /\ UNCHANGED <<fcp, pud>>

\* return x, b - np.dot(amat, x)
L2Residual ==
    /\ l2.pc = "residual"
    /\ l2' = IF l2.amat.kind = "ndarray"
             THEN [l2 EXCEPT !.pc = "done", !.rkind = "float",
                             !.r = DenseResidual(l2.amat, l2.b, l2.x)]
             ELSE LET s == SparseResidual(l2.amat, l2.b, l2.x)
                  IN  IF s.kind = "raise"
                      THEN [l2 EXCEPT !.pc = "raised", !.err = s.err]
                      ELSE [l2 EXCEPT !.pc = "done", !.rkind = "object"]
    /\ UNCHANGED <<fcp, pud>>

NextL2 ==
    \/ L2Size \/ L2FastPath \/ L2AssertRows \/ L2SolveDense \/ L2SolveSparse
    \/ L2Residual

SpecL2 == InitL2 /\ [][NextL2]_vars

NextFCP == FcpAssert \/ FcpEncode \/ FcpIntersect

SpecFCP == InitFCP /\ [][NextFCP]_vars

Init == InitFCP \/ InitPUD \/ InitL2

Next == NextFCP \/ NextPUD \/ NextL2

Spec == Init /\ [][Next]_vars

(***************************************************************************)
(* find_common_points: the claims.                                         *)
(***************************************************************************)
FcpReturned == fcp.pc = "done"

FcpChecked == fcp.pc \in {"encode", "intersect", "done", "raised"}

FcpHasNegative ==
    \E c \in {fcp.c1, fcp.c2} :
        \E i \in DOMAIN c : \E k \in 1..2 : Less64(c[i][k], Zero64)

FcpNothingEncoded ==
    fcp.fc1 = <<>> /\ fcp.fc2 = <<>> /\ fcp.ii = <<>> /\ fcp.jj = <<>>

\* The coordinate pairs that occur in both clouds.
FcpCommon ==
    { fcp.c1[i] : i \in DOMAIN fcp.c1 } \cap { fcp.c2[j] : j \in DOMAIN fcp.c2 }

\* No coordinate reaches 2^32: the keys x * m + y cannot wrap.
FcpInRange ==
    \A c \in {fcp.c1, fcp.c2} :
        \A i \in DOMAIN c : \A k \in 1..2 : c[i][k].hi = 0

FcpIndicesSound ==
    /\ Len(fcp.ii) = Len(fcp.jj)
    /\ \A k \in DOMAIN fcp.ii :
           /\ fcp.ii[k] \in 0..(Len(fcp.c1) - 1)
           /\ fcp.jj[k] \in 0..(Len(fcp.c2) - 1)
           /\ fcp.c1[fcp.ii[k] + 1] = fcp.c2[fcp.jj[k] + 1]

FcpIndicesExact ==
    /\ Len(fcp.ii) = Cardinality(FcpCommon)
    /\ Len(fcp.jj) = Cardinality(FcpCommon)
    /\ \A p \in FcpCommon :
           Cardinality({ k \in DOMAIN fcp.ii :
                           fcp.c1[fcp.ii[k] + 1] = p /\ fcp.c2[fcp.jj[k] + 1] = p }) = 1

\* C1: every returned pair of indices is in range and names the same
\* coordinate pair in both clouds, for all clouds of integers >= 0.
C1_Soundness == FcpReturned => FcpIndicesSound

\* C2: every coordinate pair common to both clouds is represented by exactly
\* one output position, and the output has one position per common pair.
C2_ExactlyOnce == FcpReturned => FcpIndicesExact

\* Both properties for clouds whose coordinates stay below 2^32, where the
\* encoding cannot wrap.
FcpCorrectInRange ==
    FcpReturned /\ FcpInRange => FcpIndicesSound /\ FcpIndicesExact

\* C8 as stated: a negative component makes the call fail with the
\* assertion before any key is encoded, and without one the check passes.
C8_Original ==
    FcpChecked =>
        /\ FcpHasNegative =>
               fcp.pc = "raised" /\ fcp.err = "AssertionError" /\ FcpNothingEncoded
        /\ ~FcpHasNegative => fcp.pc # "raised"

\* C8 amended: the same for two non-empty clouds; with an empty cloud the
\* check itself raises ValueError, still before any key is encoded.
C8_Precondition ==
    FcpChecked =>
        LET empty == Len(fcp.c1) = 0 \/ Len(fcp.c2) = 0
        IN  /\ FcpHasNegative /\ ~empty =>
                   fcp.pc = "raised" /\ fcp.err = "AssertionError" /\ FcpNothingEncoded
            /\ ~FcpHasNegative /\ ~empty => fcp.pc # "raised"
            /\ empty =>
                   fcp.pc = "raised" /\ fcp.err = "ValueError" /\ FcpNothingEncoded

C8_Witness ==
    /\ fcp.pc = "raised"
    /\ fcp.err = "AssertionError"
    /\ \A i \in DOMAIN fcp.c1 : \A k \in 1..2 : ~Less64(fcp.c1[i][k], Zero64)
    /\ \E j \in DOMAIN fcp.c2 : Less64(fcp.c2[j][2], Zero64)

(***************************************************************************)
(* pairwise_unwrapped_diff: the claims.                                    *)
(***************************************************************************)
PudFinished == pud.pc \in {"done", "raised"}

\* The sample-count check has run (the shape and dimension checks passed).
PudSamplesChecked ==
    \/ pud.pc \in {"diff", "close", "inds", "sort", "gather", "done"}
    \/ pud.pc = "raised" /\ pud.at \in {"samples", "close", "gather"}

\* The three shape checks have passed.
PudAccepted ==
    \/ pud.pc \in {"diff", "close", "inds", "sort", "gather", "done"}
    \/ pud.pc = "raised" /\ pud.at \in {"close", "gather"}

PudClosePassed ==
    \/ pud.pc \in {"inds", "sort", "gather", "done"}
    \/ pud.pc = "raised" /\ pud.at = "gather"

PudCloseFailed == pud.pc = "raised" /\ pud.at = "close"

PudIndsComputed ==
    \/ pud.pc \in {"sort", "gather", "done"}
    \/ pud.pc = "raised" /\ pud.at = "gather"

PudConstantOffset(k) ==
    \A i \in DOMAIN pud.b1.data : pud.b2.data[i] = pud.b1.data[i] + 1000 * k

\* C3: when b2 = b1 + 2 * pi * k for an integer k and the shape checks
\* accept the arrays, the call returns an array of shape (bands, 11) whose
\* every value is k.  Stated for the k that fit the 16-bit storage of the
\* differences, which is where the code comes nearest to the claim.
C3_ConstantOffset ==
    \A k \in Cycles \cap (Int16Min..Int16Max) :
        PudAccepted /\ PudFinished /\ PudConstantOffset(k) =>
            /\ pud.pc = "done"
            /\ Len(pud.hist) = pud.b1.shape[1]
            /\ \A r \in DOMAIN pud.hist :
                   /\ Len(pud.hist[r]) = NRanks
                   /\ \A c \in DOMAIN pud.hist[r] : pud.hist[r][c] = k

\* C4: two arrays of one 2-D shape are rejected for their sample count
\* exactly when samples < 11.
C4_LowerBound ==
    PudSamplesChecked =>
        ((pud.pc = "raised" /\ pud.at = "samples") <=> pud.b1.shape[2] < NRanks)

\* C5: each of the 11 rank indices lies in 0..samples-1, and at samples = 11
\* the ranks are 0, 1, ..., 10.
C5_RanksInRange ==
    PudIndsComputed =>
        /\ Len(pud.inds) = NRanks
        /\ \A k \in DOMAIN pud.inds : pud.inds[k] \in 0..(pud.b1.shape[2] - 1)
        /\ pud.b1.shape[2] = NRanks => pud.inds = [k \in 1..NRanks |-> k - 1]

\* C9 as stated: the tolerance check passes only if every element is within
\* 0.01 of its nearest integer, whatever the size of that integer.
C9_Original ==
    PudClosePassed =>
        \A i \in DOMAIN pud.diff :
            Abs(pud.diff[i] - 1000 * Rint(pud.diff[i])) <= 10

\* C9 amended: the check passes exactly when every element d and its stored
\* 16-bit integer n satisfy |d - n| <= 0.01 + 0.00001 * |n|; the bound grows
\* with the size of n.
C9_Tolerance ==
    PudClosePassed \/ PudCloseFailed =>
        (PudClosePassed <=>
            \A i \in DOMAIN pud.diff :
                LET e == Abs(pud.diff[i] - 1000 * pud.nint[i])
                IN  e <= 10 \/ (e <= 1000 /\ (e - 10) * 100 <= Abs(pud.nint[i])))

\* The check passed although one element is more than 0.01 from its integer.
C9_Witness ==
    /\ PudClosePassed
    /\ \E i \in DOMAIN pud.diff : Abs(pud.diff[i] - 1000 * pud.nint[i]) > 10

\* C10: the stored values are 16-bit; when the closeness assertion passes
\* every stored value is the nearest integer of its cycle difference; and a
\* difference whose nearest integer is outside the 16-bit range makes the
\* assertion fail.
C10_NoWrappedValue ==
    /\ \A i \in DOMAIN pud.nint : pud.nint[i] \in Int16Min..Int16Max
    /\ PudClosePassed =>
           \A i \in DOMAIN pud.diff : pud.nint[i] = Rint(pud.diff[i])
    /\ (PudClosePassed \/ PudCloseFailed)
           /\ (\E i \in DOMAIN pud.diff : Rint(pud.diff[i]) \notin Int16Min..Int16Max)
           => PudCloseFailed

\* A whole-cycle difference beyond the 16-bit range was wrapped and refused.
C10_Witness ==
    /\ PudCloseFailed
    /\ \A i \in DOMAIN pud.diff :
           /\ pud.diff[i] = 1000 * Rint(pud.diff[i])
           /\ Rint(pud.diff[i]) > Int16Max
           /\ pud.nint[i] = Rint(pud.diff[i]) - 2 ^ Int16Bits

(***************************************************************************)
(* l2_min: the claims.                                                     *)
(***************************************************************************)
L2Finished == l2.pc \in {"done", "raised"}

L2Started == l2.pc \notin {"idle", "size"}

L2ZeroElements == Product(l2.amat.shape) = 0

\* C6: a matrix with zero total elements, any b and any logger: the call
\* does not fail, no solver is invoked, x is the zero vector of length C and
\* the residual the zero vector of length R, and the logger receives exactly
\* one warning when supplied.
C6_EmptyFastPath ==
    L2Started /\ L2ZeroElements =>
        /\ l2.pc \in {"fast", "done"}
        /\ l2.solves = <<>>
        /\ l2.pc = "fast" => l2.warnings = 0
        /\ l2.pc = "done" =>
               /\ l2.x = [i \in 1..l2.amat.shape[2] |-> 0]
               /\ l2.r = [i \in 1..l2.amat.shape[1] |-> 0]
               /\ l2.warnings = IF l2.logger THEN 1 ELSE 0

\* An empty matrix with columns, a right-hand side of another length and a
\* logger: the call has returned.
C6_Witness ==
    /\ l2.pc = "done"
    /\ l2.amat.shape[1] = 0
    /\ l2.amat.shape[2] > 0
    /\ Len(l2.b) > 0
    /\ l2.logger
    /\ l2.warnings = 1

L2ResidualRoundTrip ==
    /\ l2.pc = "done"
    /\ l2.solves =
           <<IF l2.amat.kind = "ndarray" THEN "lsq_dense" ELSE "lsq_sparse">>
    /\ l2.rkind = "float"
    /\ l2.r = [i \in DOMAIN l2.b |-> l2.b[i] - MatVec(l2.amat, l2.x)[i]]

\* C7: for a non-empty A, dense or sparse, with as many rows as b has
\* elements, exactly one solver is invoked (the dense one iff A is dense)
\* and the second returned value is b - A x for the returned x.
C7_ResidualRoundTrip ==
    L2Finished /\ ~L2ZeroElements /\ l2.amat.shape[1] = Len(l2.b) =>
        L2ResidualRoundTrip

\* The same for dense matrices alone.
L2DenseRoundTrip ==
    L2Finished /\ ~L2ZeroElements /\ l2.amat.shape[1] = Len(l2.b)
        /\ l2.amat.kind = "ndarray" => L2ResidualRoundTrip

=============================================================================
